---- MODULE Spec2Model ----
(***************************************************************************)
(* The session controller of frontend/src/App.tsx: one React component     *)
(* that owns the camera stream, the MediaRecorder, the streaming requests  *)
(* and the speech output.                                                  *)
(*                                                                         *)
(* A state of the model is a state between two browser tasks: every action *)
(* is one event handler or one callback together with the render it        *)
(* causes and the effect cleanups that render runs (React flushes them     *)
(* before the next task).  A callback created during a render reads the    *)
(* state of THAT render (its closure), so the helpers below take the       *)
(* captured values (isRecording, ttsEnabled) as parameters.                *)
(***************************************************************************)
EXTENDS Integers, Sequences, FiniteSets, TLC

VARIABLES
    \* React state (App.tsx 43-62)
    image, video, mediaType, question, conversation, isLoading, error,
    streamingText, isSpeaking, ttsEnabled, cameraActive, isRecording,
    recordingTime,
    \* refs (App.tsx 70-76)
    streamRef, mediaRecorderRef, recordingTimerRef, abortControllerRef,
    \* the browser: component mounted, camera tracks, pending permission
    \* prompts, recorder, pending recorder / FileReader events, requests in
    \* flight, speech synthesis queue
    mounted, tracks, cameraPending, recorder, recStops, recLoads,
    imgLoads, vidLoads, requests, utter, lateEnd,
    \* history: the last operation the user invoked, when it is one the
    \* properties follow up on, and "other" when it is any other one
    userOp

vars == <<image, video, mediaType, question, conversation, isLoading, error,
          streamingText, isSpeaking, ttsEnabled, cameraActive, isRecording,
          recordingTime, streamRef, mediaRecorderRef, recordingTimerRef,
          abortControllerRef, mounted, tracks, cameraPending, recorder,
          recStops, recLoads, imgLoads, vidLoads, requests, utter, lateEnd,
          userOp>>

\* null of a string-valued state (image, video, error) and of a ref
None == "none"
NoRef == 0

\* ------------------------------------------------------------------ bounds
MaxRequests == 2      \* requests issued in one run
MaxStreams == 2       \* camera streams requested in one run
MaxLoads == 1         \* FileReader loads pending per kind of upload
MaxRecordings == 1    \* recorder stop / load events pending

ReqIds == 1..MaxRequests
StreamIds == 1..MaxStreams

\* ------------------------------------------------------- program constants
RecordingCeiling == 10    \* "return 10" of the interval callback
DataPrefixLen == 6        \* line.slice(6)

\* ----------------------------------------------------------------- strings
\* A string is a sequence of one-character strings.
DataPrefix == <<"d", "a", "t", "a", ":", " ">>
DoneSentinel == <<"[", "D", "O", "N", "E", "]">>
NewLine == "\n"

\* String.prototype.trim, on the characters the model types
RECURSIVE TrimLeft(_)
TrimLeft(s) == IF s # <<>> /\ Head(s) = " " THEN TrimLeft(Tail(s)) ELSE s

RECURSIVE TrimRight(_)
TrimRight(s) ==
    IF s # <<>> /\ s[Len(s)] = " " THEN TrimRight(SubSeq(s, 1, Len(s) - 1)) ELSE s

trim(s) == TrimRight(TrimLeft(s))

\* chunk.split('\n'): the pieces between the newlines, the last one included
RECURSIVE SplitFrom(_, _)
SplitFrom(s, cur) ==
    IF s = <<>> THEN <<cur>>
    ELSE IF Head(s) = NewLine THEN <<cur>> \o SplitFrom(Tail(s), <<>>)
    ELSE SplitFrom(Tail(s), Append(cur, Head(s)))

split(chunk) == SplitFrom(chunk, <<>>)

startsWith(line, prefix) ==
    /\ Len(line) >= Len(prefix)
    /\ SubSeq(line, 1, Len(prefix)) = prefix

slice(line, n) == SubSeq(line, n + 1, Len(line))

\* The for loop over the lines of one chunk (App.tsx 396-403, 471-478):
\* acc.text is fullText, acc.shown the last value given to setStreamingText.
RECURSIVE forLines(_, _)
forLines(lines, acc) ==
    IF lines = <<>> THEN acc
    ELSE LET line == Head(lines) IN
         IF startsWith(line, DataPrefix)
         THEN LET data == slice(line, DataPrefixLen) IN
              IF data = DoneSentinel
              THEN acc                                  \* break: leaves the for loop
              ELSE forLines(Tail(lines),
                            [text |-> acc.text \o data, shown |-> acc.text \o data])
         ELSE forLines(Tail(lines), acc)

\* One iteration of the while loop after a read that was not done.
readChunk(fullText, shown, chunk) ==
    forLines(split(chunk), [text |-> fullText, shown |-> shown])

\* ------------------------------------------------------------ the state
\* The current state as one record, so that a handler is a function from
\* record to record and its statements compose in program order.
Cur ==
    [image |-> image, video |-> video, mediaType |-> mediaType,
     question |-> question, conversation |-> conversation,
     isLoading |-> isLoading, error |-> error, streamingText |-> streamingText,
     isSpeaking |-> isSpeaking, ttsEnabled |-> ttsEnabled,
     cameraActive |-> cameraActive, isRecording |-> isRecording,
     recordingTime |-> recordingTime, streamRef |-> streamRef,
     mediaRecorderRef |-> mediaRecorderRef,
     recordingTimerRef |-> recordingTimerRef,
     abortControllerRef |-> abortControllerRef, mounted |-> mounted,
     tracks |-> tracks, cameraPending |-> cameraPending, recorder |-> recorder,
     recStops |-> recStops, recLoads |-> recLoads, imgLoads |-> imgLoads,
     vidLoads |-> vidLoads, requests |-> requests, utter |-> utter,
     lateEnd |-> lateEnd, userOp |-> userOp]

\* A state setter of an unmounted component does nothing: React state keeps
\* its value once mounted is false; refs and the browser's objects change.
Commit(s) ==
    /\ image' = IF mounted THEN s.image ELSE image
    /\ video' = IF mounted THEN s.video ELSE video
    /\ mediaType' = IF mounted THEN s.mediaType ELSE mediaType
    /\ question' = IF mounted THEN s.question ELSE question
    /\ conversation' = IF mounted THEN s.conversation ELSE conversation
    /\ isLoading' = IF mounted THEN s.isLoading ELSE isLoading
    /\ error' = IF mounted THEN s.error ELSE error
    /\ streamingText' = IF mounted THEN s.streamingText ELSE streamingText
    /\ isSpeaking' = IF mounted THEN s.isSpeaking ELSE isSpeaking
    /\ ttsEnabled' = IF mounted THEN s.ttsEnabled ELSE ttsEnabled
    /\ cameraActive' = IF mounted THEN s.cameraActive ELSE cameraActive
    /\ isRecording' = IF mounted THEN s.isRecording ELSE isRecording
    /\ recordingTime' = IF mounted THEN s.recordingTime ELSE recordingTime
    /\ streamRef' = s.streamRef
    /\ mediaRecorderRef' = s.mediaRecorderRef
    /\ recordingTimerRef' = s.recordingTimerRef
    /\ abortControllerRef' = s.abortControllerRef
    /\ mounted' = s.mounted
    /\ tracks' = s.tracks
    /\ cameraPending' = s.cameraPending
    /\ recorder' = s.recorder
    /\ recStops' = s.recStops
    /\ recLoads' = s.recLoads
    /\ imgLoads' = s.imgLoads
    /\ vidLoads' = s.vidLoads
    /\ requests' = s.requests
    /\ utter' = s.utter
    /\ lateEnd' = s.lateEnd
    /\ userOp' = s.userOp

\* ------------------------------------------------------------ speech (TTS)
\* window.speechSynthesis.cancel(): the queue is emptied; the utterance that
\* was queued or playing still reports its end (onend / onerror) later.
synthCancel(s) ==
    [s EXCEPT !.utter = "none", !.lateEnd = s.lateEnd \/ s.utter # "none"]

\* speak, as created in a render whose ttsEnabled was tts
speak(s, tts) ==
    IF ~tts THEN s
    ELSE [synthCancel(s) EXCEPT !.utter = "queued"]

stopSpeaking(s) == [synthCancel(s) EXCEPT !.isSpeaking = FALSE]

\* ------------------------------------------------------------- requests
InFlight(r) == r.phase \in {"fetch", "read"}

\* finally with abortControllerRef.current = null (line 424) left out
finally_keepsController(s, id, outcome) ==
    [s EXCEPT !.isLoading = FALSE,
              !.requests[id] = [@ EXCEPT !.phase = "end", !.outcome = outcome,
                                         !.rest = <<>>, !.fullText = <<>>]]

\* finally { setIsLoading(false); abortControllerRef.current = null }
finally(s, id, outcome) ==
    [s EXCEPT !.isLoading = FALSE,
              !.abortControllerRef = NoRef,
              !.requests[id] = [@ EXCEPT !.phase = "end", !.outcome = outcome,
                                         !.rest = <<>>, !.fullText = <<>>]]

\* controller.abort(): the pending fetch or read of the request that holds
\* this controller's signal rejects with AbortError; the catch block ignores
\* it and the finally block runs before the next task.
abort(s, id) ==
    IF InFlight(s.requests[id]) THEN finally(s, id, "cancelled") ELSE s

stopStreaming(s) ==
    IF s.abortControllerRef # NoRef
    THEN abort([s EXCEPT !.abortControllerRef = NoRef], s.abortControllerRef)
    ELSE s

\* ------------------------------------------------------ camera, recorder
\* MediaRecorder.stop(): a recording recorder becomes inactive and its stop
\* event is queued; the event carries the closures of the render that
\* created the recorder.
recorderStop(s) ==
    IF s.recorder.state = "recording"
    THEN [s EXCEPT !.recorder.state = "inactive",
                   !.recStops = Append(@, s.recorder.tts)]
    ELSE s

\* stopCamera with the release of the stream (lines 180-183) left out
stopCamera_keepsStream(s, isRec) ==
    LET s1 == IF s.recordingTimerRef # NoRef
              THEN [s EXCEPT !.recordingTimerRef = NoRef] ELSE s
        s2 == IF s1.mediaRecorderRef # NoRef /\ isRec THEN recorderStop(s1) ELSE s1
    IN [s2 EXCEPT !.cameraActive = FALSE, !.isRecording = FALSE,
                  !.recordingTime = 0]

\* stopCamera, as created in a render whose isRecording was isRec
stopCamera(s, isRec) ==
    LET s1 == IF s.recordingTimerRef # NoRef
              THEN [s EXCEPT !.recordingTimerRef = NoRef] ELSE s
        s2 == IF s1.mediaRecorderRef # NoRef /\ isRec THEN recorderStop(s1) ELSE s1
        s3 == IF s2.streamRef # NoRef
              THEN [s2 EXCEPT !.tracks[s2.streamRef] = "ended", !.streamRef = NoRef]
              ELSE s2
    IN [s3 EXCEPT !.cameraActive = FALSE, !.isRecording = FALSE,
                  !.recordingTime = 0]

\* stopRecording, as created in a render whose isRecording was isRec
stopRecording(s, isRec) ==
    IF ~isRec THEN s
    ELSE LET s1 == IF s.recordingTimerRef # NoRef
                   THEN [s EXCEPT !.recordingTimerRef = NoRef] ELSE s
             s2 == IF s1.mediaRecorderRef # NoRef THEN recorderStop(s1) ELSE s1
         IN [s2 EXCEPT !.isRecording = FALSE]

\* ------------------------------------------------------------- effects
\* The cleanup of the effect of lines 516-522.  Its dependencies are
\* stopCamera, stopSpeaking and stopStreaming, and stopCamera is a new
\* function whenever isRecording changes, so React runs this cleanup, with
\* the stopCamera of the previous render, after every render in which
\* isRecording changed, and once more at unmount.
teardown(s, isRec) == stopStreaming(stopSpeaking(stopCamera(s, isRec)))

\* The effect of lines 164-170, with dependencies cameraActive and speak
cameraEffect(prev, cur, s) ==
    IF /\ (cur.cameraActive # prev.cameraActive \/ cur.ttsEnabled # prev.ttsEnabled)
       /\ cur.cameraActive
       /\ s.streamRef # NoRef
    THEN speak(s, cur.ttsEnabled)
    ELSE s

\* The render that follows a handler and the effects it flushes: prev is the
\* state of the previous render, cur the state being rendered.  Cleanups
\* run before the new effects; a state change made by an effect renders
\* again.
RECURSIVE Render(_, _)
Render(prev, cur) ==
    LET cleaned == IF cur.isRecording # prev.isRecording
                   THEN teardown(cur, prev.isRecording) ELSE cur
        done == cameraEffect(prev, cur, cleaned)
    IN IF done.isRecording = cur.isRecording /\ done.cameraActive = cur.cameraActive
       THEN done
       ELSE Render(cur, done)

\* What an action leaves: the handler's result, rendered when mounted.
Finish(s) == Commit(IF mounted THEN Render(Cur, s) ELSE s)

\* --------------------------------------------------------- the backend
\* What the server writes on a response body: one line "data: <payload>\n"
\* for each frame.  A script names the frames of one response.
Frame(payload) == DataPrefix \o payload \o <<NewLine>>

Frames(script) ==
    CASE script = "ab" -> << <<"a">>, <<"b">>, DoneSentinel >>
      [] script = "aDb" -> << <<"a">>, DoneSentinel, <<"b">> >>
      [] OTHER -> << >>

Scripts == {"ab", "aDb"}

RECURSIVE Encode(_)
Encode(frames) ==
    IF frames = <<>> THEN <<>> ELSE Frame(Head(frames)) \o Encode(Tail(frames))

\* the body of a response whose status is not a success: no data line
ErrorBody == <<"e">>

\* the fragments a script sends before its sentinel, concatenated
RECURSIVE Payload(_)
Payload(frames) ==
    IF frames = <<>> \/ Head(frames) = DoneSentinel THEN <<>>
    ELSE Head(frames) \o Payload(Tail(frames))

NoRequest ==
    [phase |-> "idle", mode |-> "ask", tts |-> TRUE, ok |-> TRUE,
     script |-> "none", rest |-> <<>>, fullText |-> <<>>,
     outcome |-> "none", answered |-> FALSE, erred |-> FALSE]

FreeIds == {id \in ReqIds : requests[id].phase = "idle"}
NextId == CHOOSE id \in FreeIds : \A other \in FreeIds : id <= other

\* ------------------------------------------------------------------- Init
Init ==
    /\ image = None /\ video = None /\ mediaType = "image"
    /\ question = <<>> /\ conversation = <<>>
    /\ isLoading = FALSE /\ error = None /\ streamingText = <<>>
    /\ isSpeaking = FALSE /\ ttsEnabled = TRUE
    /\ cameraActive = FALSE /\ isRecording = FALSE /\ recordingTime = 0
    /\ streamRef = NoRef /\ mediaRecorderRef = NoRef
    /\ recordingTimerRef = NoRef /\ abortControllerRef = NoRef
    /\ mounted = TRUE
    /\ tracks = [id \in StreamIds |-> "none"]
    /\ cameraPending = <<>>
    /\ recorder = [state |-> "none", tts |-> TRUE]
    /\ recStops = <<>> /\ recLoads = <<>> /\ imgLoads = <<>> /\ vidLoads = <<>>
    /\ requests = [id \in ReqIds |-> NoRequest]
    /\ utter = "none" /\ lateEnd = FALSE
    /\ userOp = "none"

\* what the page shows (App.tsx 561, 592, 634-668)
hasMedia == image # None \/ video # None
FollowedOps ==
    {"startRecording", "stopRecording", "stopCamera", "handleReset", "handleSubmit",
     "capturePhoto", "escape"}
User(op) == [Cur EXCEPT !.userOp = IF op \in FollowedOps THEN op ELSE "other"]

\* ----------------------------------------------------------------- camera
\* startCamera up to its await: the permission prompt is pending
StartCamera ==
    /\ mounted /\ ~hasMedia /\ ~cameraActive
    /\ Len(cameraPending) + Cardinality({id \in StreamIds : tracks[id] # "none"})
         < MaxStreams
    /\ Finish([User("startCamera") EXCEPT !.cameraPending = Append(@, ttsEnabled)])

\* getUserMedia resolves: lines 155-156
CameraGranted ==
    /\ cameraPending # <<>>
    /\ LET id == CHOOSE i \in StreamIds :
                   /\ tracks[i] = "none"
                   /\ \A j \in StreamIds : tracks[j] = "none" => i <= j
       IN Finish([Cur EXCEPT !.cameraPending = Tail(@),
                             !.tracks[id] = "live",
                             !.streamRef = id,
                             !.cameraActive = TRUE])

\* the catch block of startCamera with the two statements that follow the
\* await (lines 155-156) run all the same
CameraDenied_activates ==
    /\ cameraPending # <<>>
    /\ Finish(speak([Cur EXCEPT !.cameraPending = Tail(@), !.error = "camera",
                                !.cameraActive = TRUE],
                    Head(cameraPending)))

\* getUserMedia rejects: lines 157-161
CameraDenied ==
    /\ cameraPending # <<>>
    /\ Finish(speak([Cur EXCEPT !.cameraPending = Tail(@), !.error = "camera"],
                    Head(cameraPending)))

\* the cancel button of the camera area
StopCamera ==
    /\ mounted /\ cameraActive
    /\ Finish(stopCamera(User("stopCamera"), isRecording))

\* capturePhoto with the test of line 194 left out
capturePhoto_unguarded(s, isRec, tts) ==
    speak(stopCamera([s EXCEPT !.image = "image", !.video = None,
                               !.mediaType = "image", !.conversation = <<>>],
                     isRec),
          tts)

\* capturePhoto; videoRef.current is the preview element, which is in the
\* page exactly while cameraActive is rendered (line 592)
capturePhoto(s, isRec, tts) ==
    IF ~s.cameraActive THEN s
    ELSE speak(stopCamera([s EXCEPT !.image = "image", !.video = None,
                                    !.mediaType = "image", !.conversation = <<>>],
                          isRec),
               tts)

\* the photo button: rendered with the camera area, disabled while recording
CapturePhoto ==
    /\ mounted /\ cameraActive /\ ~isRecording
    /\ Finish(capturePhoto(User("capturePhoto"), isRecording, ttsEnabled))

\* capturePhoto called whatever the page shows: with the camera area it is
\* the photo button, without it a call that finds no preview element
CapturePhotoCall ==
    /\ mounted /\ ~isRecording
    /\ Finish(capturePhoto(User("capturePhoto"), isRecording, ttsEnabled))

\* startRecording, as created in a render whose ttsEnabled was tts; the
\* recorder's onstop and the interval callback keep the stopCamera and the
\* stopRecording of that render, in which isRecording was false
\* (toggleRecording calls startRecording only then).
startRecording(s, tts) ==
    IF s.streamRef = NoRef THEN s
    ELSE speak([s EXCEPT !.recorder = [state |-> "recording", tts |-> tts],
                         !.mediaRecorderRef = 1,
                         !.isRecording = TRUE,
                         !.recordingTime = 0,
                         !.recordingTimerRef = 1],
               tts)

toggleRecording(s, isRec, tts) ==
    IF isRec THEN stopRecording(s, isRec) ELSE startRecording(s, tts)

ToggleRecording ==
    /\ mounted /\ cameraActive
    /\ Len(recStops) + Len(recLoads) < MaxRecordings
    /\ Finish(toggleRecording(User(IF isRecording THEN "stopRecording"
                                                  ELSE "startRecording"),
                              isRecording, ttsEnabled))

\* the interval callback with the test of line 270 left out
timerTick_unbounded(s) == [s EXCEPT !.recordingTime = @ + 1]

\* the interval callback of lines 268-276; its stopRecording is the one of
\* the render that started the recording (isRecording false)
timerTick(s) ==
    IF s.recordingTime >= RecordingCeiling - 1
    THEN [stopRecording(s, FALSE) EXCEPT !.recordingTime = RecordingCeiling]
    ELSE [s EXCEPT !.recordingTime = @ + 1]

TimerTick ==
    /\ recordingTimerRef # NoRef
    /\ Finish(timerTick(Cur))

\* mediaRecorder.onstop: the blob is handed to a FileReader
RecorderOnStop ==
    /\ recStops # <<>>
    /\ Finish([Cur EXCEPT !.recStops = Tail(@),
                          !.recLoads = Append(@, Head(recStops))])

\* reader.onloadend of lines 247-256
RecorderOnLoadEnd ==
    /\ recLoads # <<>>
    /\ Finish(speak(stopCamera([Cur EXCEPT !.recLoads = Tail(@),
                                           !.video = "video",
                                           !.image = None,
                                           !.mediaType = "video",
                                           !.conversation = <<>>],
                               FALSE),
                    Head(recLoads)))

\* ---------------------------------------------------------------- uploads
\* handleImageUpload up to readAsDataURL; kind is the file the user chose
handleImageUpload(s, kind, tts) ==
    IF kind # "image" THEN [s EXCEPT !.error = "imageOnly"]
    ELSE [s EXCEPT !.imgLoads = Append(@, tts)]

handleVideoUpload(s, kind, tts) ==
    IF kind \notin {"video", "bigVideo"} THEN [s EXCEPT !.error = "videoOnly"]
    ELSE IF kind = "bigVideo" THEN [s EXCEPT !.error = "videoTooBig"]
    ELSE [s EXCEPT !.vidLoads = Append(@, tts)]

FileKinds == {"image", "video", "bigVideo"}

\* the file inputs are rendered while there is no media and no camera
ImageUpload ==
    /\ mounted /\ ~hasMedia /\ ~cameraActive
    /\ \E kind \in FileKinds :
         /\ kind = "image" => Len(imgLoads) < MaxLoads
         /\ Finish(handleImageUpload(User("imageUpload"), kind, ttsEnabled))

VideoUpload ==
    /\ mounted /\ ~hasMedia /\ ~cameraActive
    /\ \E kind \in FileKinds :
         /\ kind = "video" => Len(vidLoads) < MaxLoads
         /\ Finish(handleVideoUpload(User("videoUpload"), kind, ttsEnabled))

\* reader.onload of lines 302-310
imageOnLoad(s, tts) ==
    speak([s EXCEPT !.image = "image", !.video = None, !.mediaType = "image",
                    !.conversation = <<>>, !.error = None],
          tts)

\* videoOnLoad with setImage(null) of line 330 left out
videoOnLoad_keepsImage(s, tts) ==
    speak([s EXCEPT !.video = "video", !.mediaType = "video",
                    !.conversation = <<>>, !.error = None],
          tts)

\* reader.onload of lines 328-336
videoOnLoad(s, tts) ==
    speak([s EXCEPT !.video = "video", !.image = None, !.mediaType = "video",
                    !.conversation = <<>>, !.error = None],
          tts)

ImageOnLoad ==
    /\ imgLoads # <<>>
    /\ Finish(imageOnLoad([Cur EXCEPT !.imgLoads = Tail(@)], Head(imgLoads)))

VideoOnLoad ==
    /\ vidLoads # <<>>
    /\ Finish(videoOnLoad([Cur EXCEPT !.vidLoads = Tail(@)], Head(vidLoads)))

\* ------------------------------------------------------------- questions
Questions == {<<>>, <<" ">>, <<"q">>}

\* the textarea: rendered with the conversation, disabled while loading
SetQuestion ==
    /\ mounted /\ hasMedia /\ ~isLoading
    /\ \E q \in Questions \ {question} :
         Finish([User("setQuestion") EXCEPT !.question = q])

newRequest(mode, tts) ==
    [NoRequest EXCEPT !.phase = "fetch", !.mode = mode, !.tts = tts,
                      !.outcome = "pending"]

\* handleSubmit with the whitespace test of line 349 left out
handleSubmit_untrimmed(s, id, tts) ==
    IF s.image = None /\ s.video = None
    THEN speak([s EXCEPT !.error = "noMedia"], tts)
    ELSE IF s.question = <<>>
    THEN speak([s EXCEPT !.error = "noQuestion"], tts)
    ELSE LET s1 == speak([s EXCEPT !.isLoading = TRUE, !.error = None,
                                   !.streamingText = <<>>], tts)
         IN [s1 EXCEPT
               !.conversation =
                   Append(@, [type |-> "question", text |-> s.question, req |-> id]),
               !.question = <<>>,
               !.abortControllerRef = id,
               !.requests[id] = newRequest("ask", tts)]

\* handleSubmit up to its first await (lines 341-382); id names the
\* AbortController it creates and the request that carries its signal
handleSubmit(s, id, tts) ==
    IF s.image = None /\ s.video = None
    THEN speak([s EXCEPT !.error = "noMedia"], tts)
    ELSE IF trim(s.question) = <<>>
    THEN speak([s EXCEPT !.error = "noQuestion"], tts)
    ELSE LET s1 == speak([s EXCEPT !.isLoading = TRUE, !.error = None,
                                   !.streamingText = <<>>], tts)
         IN [s1 EXCEPT
               !.conversation =
                   Append(@, [type |-> "question", text |-> s.question, req |-> id]),
               !.question = <<>>,
               !.abortControllerRef = id,
               !.requests[id] = newRequest("ask", tts)]

submitAccepted == hasMedia /\ trim(question) # <<>>

\* the form's submit (button disabled while loading or without a question)
\* and Ctrl+Enter on the window, which is never disabled
HandleSubmit ==
    /\ mounted
    /\ submitAccepted => FreeIds # {}
    /\ Finish(handleSubmit(User("handleSubmit"),
                           IF FreeIds # {} THEN NextId ELSE NoRef, ttsEnabled))

\* handleDescribe up to its first await (lines 429-459)
handleDescribe(s, id, tts) ==
    IF s.image = None /\ s.video = None
    THEN speak(s, tts)
    ELSE LET s1 == speak([s EXCEPT !.isLoading = TRUE, !.streamingText = <<>>], tts)
         IN [s1 EXCEPT
               !.conversation =
                   Append(@, [type |-> "question",
                              text |-> IF s.mediaType = "video" THEN <<"V">> ELSE <<"I">>,
                              req |-> id]),
               !.abortControllerRef = id,
               !.requests[id] = newRequest("describe", tts)]

\* the describe button: rendered with the media, disabled while loading
HandleDescribe ==
    /\ mounted /\ hasMedia /\ ~isLoading
    /\ FreeIds # {}
    /\ Finish(handleDescribe(User("handleDescribe"), NextId, ttsEnabled))

\* the stop button of the form, rendered while loading
StopStreaming ==
    /\ mounted /\ hasMedia /\ isLoading
    /\ Finish(stopStreaming(User("stopStreaming")))

\* the Escape key (line 528)
Escape ==
    /\ mounted
    /\ Finish(stopStreaming(stopSpeaking(User("escape"))))

\* the stop-speaking button, rendered while isSpeaking
StopSpeaking ==
    /\ mounted /\ isSpeaking
    /\ Finish(stopSpeaking(User("stopSpeaking")))

\* the speaker button of an answer entry (line 684)
SpeakAnswer ==
    /\ mounted /\ hasMedia
    /\ \E i \in DOMAIN conversation : conversation[i].type = "answer"
    /\ Finish(speak(User("speakAnswer"), ttsEnabled))

ToggleTts ==
    /\ mounted
    /\ Finish([User("toggleTts") EXCEPT !.ttsEnabled = ~ttsEnabled])

handleReset(s, isRec, tts) ==
    speak(stopStreaming(stopCamera(
              [s EXCEPT !.image = None, !.video = None, !.mediaType = "image",
                        !.conversation = <<>>, !.question = <<>>,
                        !.error = None, !.streamingText = <<>>],
              isRec)),
          tts)

\* the reset button, rendered with the media
HandleReset ==
    /\ mounted /\ hasMedia
    /\ Finish(handleReset(User("handleReset"), isRecording, ttsEnabled))

\* the component is removed: the cleanup of lines 516-522 runs once more
Unmount ==
    /\ mounted
    /\ Commit([teardown(User("unmount"), isRecording) EXCEPT !.mounted = FALSE])

\* ------------------------------------------- a request after its first await
\* catch (lines 416-421 for a question, 491-494 for a description), for an
\* error that is not an AbortError, and then finally
catch(s, id) ==
    LET r == s.requests[id]
        s1 == IF r.mode = "ask"
              THEN [s EXCEPT !.error = "server", !.requests[id].erred = TRUE]
              ELSE s
    IN finally(speak(s1, r.tts), id, "failed")

\* fetch rejects: the network failed before a response arrived
FetchFail ==
    \E id \in ReqIds :
      /\ requests[id].phase = "fetch"
      /\ Finish(catch(Cur, id))

\* fetch resolves with a response; handleSubmit throws unless response.ok
\* (line 384), handleDescribe reads the body whatever the status
fetchRespond(s, id, ok, script) ==
    IF s.requests[id].mode = "ask" /\ ~ok
    THEN catch([s EXCEPT !.requests[id].ok = FALSE], id)
    ELSE [s EXCEPT !.requests[id] =
              [@ EXCEPT !.phase = "read", !.ok = ok,
                        !.script = IF ok THEN script ELSE "none",
                        !.rest = IF ok THEN Encode(Frames(script)) ELSE ErrorBody]]

FetchRespond ==
    \E id \in ReqIds, ok \in BOOLEAN, script \in Scripts :
      /\ requests[id].phase = "fetch"
      /\ Finish(fetchRespond(Cur, id, ok, script))

\* reader.read() resolves with the next n bytes of the body
readValue(s, id, n) ==
    LET r == s.requests[id]
        acc == readChunk(r.fullText, s.streamingText, SubSeq(r.rest, 1, n))
    IN [s EXCEPT !.requests[id].fullText = acc.text,
                 !.requests[id].rest = SubSeq(r.rest, n + 1, Len(r.rest)),
                 !.streamingText = acc.shown]

\* readDone with the answer put in front of the entries (line 412 as
\* [newAnswer, ...prev])
readDone_prepends(s, id) ==
    LET r == s.requests[id]
        s1 == [s EXCEPT !.conversation =
                            <<[type |-> "answer", text |-> r.fullText,
                               req |-> id]>> \o @,
                        !.streamingText = <<>>,
                        !.requests[id].answered = TRUE]
    IN finally(speak(s1, r.tts), id, IF r.ok THEN "completed" ELSE "failed")

\* reader.read() resolves with done: lines 407-414, then finally
readDone(s, id) ==
    LET r == s.requests[id]
        s1 == [s EXCEPT !.conversation =
                            Append(@, [type |-> "answer", text |-> r.fullText,
                                       req |-> id]),
                        !.streamingText = <<>>,
                        !.requests[id].answered = TRUE]
    IN finally(speak(s1, r.tts), id, IF r.ok THEN "completed" ELSE "failed")

\* the transport hands over any number of the bytes that are left
ReadValue ==
    \E id \in ReqIds :
      /\ requests[id].phase = "read"
      /\ \E n \in 1..Len(requests[id].rest) : Finish(readValue(Cur, id, n))

\* a transport that hands over whole lines only
LineEnds(bytes) == {n \in 1..Len(bytes) : bytes[n] = NewLine \/ n = Len(bytes)}

ReadLines ==
    \E id \in ReqIds :
      /\ requests[id].phase = "read"
      /\ \E n \in LineEnds(requests[id].rest) : Finish(readValue(Cur, id, n))

\* the server closes the body after its last byte
ReadDone ==
    \E id \in ReqIds :
      /\ requests[id].phase = "read"
      /\ requests[id].rest = <<>>
      /\ Finish(readDone(Cur, id))

\* reader.read() rejects: the connection broke while streaming
ReadFail ==
    \E id \in ReqIds :
      /\ requests[id].phase = "read"
      /\ Finish(catch(Cur, id))

\* --------------------------------------------------- speech synthesis events
\* utterance.onstart
UtterStart ==
    /\ utter = "queued"
    /\ Finish([Cur EXCEPT !.utter = "playing", !.isSpeaking = TRUE])

\* utterance.onend / onerror of the utterance that is playing
UtterEnd ==
    /\ utter = "playing"
    /\ Finish([Cur EXCEPT !.utter = "none", !.isSpeaking = FALSE])

\* utterance.onend / onerror of an utterance that cancel() removed
UtterCancelled ==
    /\ lateEnd
    /\ Finish([Cur EXCEPT !.lateEnd = FALSE, !.isSpeaking = FALSE])

\* ------------------------------------------------------------------- Next
Next ==
    \/ StartCamera \/ CameraGranted \/ CameraDenied \/ StopCamera
    \/ CapturePhoto \/ ToggleRecording \/ RecorderOnStop \/ RecorderOnLoadEnd
    \/ ImageUpload \/ VideoUpload \/ ImageOnLoad \/ VideoOnLoad
    \/ SetQuestion \/ HandleSubmit \/ HandleDescribe
    \/ StopStreaming \/ Escape \/ StopSpeaking \/ SpeakAnswer \/ ToggleTts
    \/ HandleReset \/ Unmount
    \/ FetchFail \/ FetchRespond \/ ReadValue \/ ReadDone \/ ReadFail
    \/ UtterStart \/ UtterEnd \/ UtterCancelled

Spec == Init /\ [][Next]_vars

\* The capture side alone: the user works the camera, the recorder, the file
\* inputs and the reset button, and asks nothing.
NextCapture ==
    \/ StartCamera \/ CameraGranted \/ CameraDenied \/ StopCamera
    \/ CapturePhoto \/ ToggleRecording \/ RecorderOnStop \/ RecorderOnLoadEnd
    \/ ImageUpload \/ VideoUpload \/ ImageOnLoad \/ VideoOnLoad
    \/ ToggleTts \/ HandleReset \/ Unmount
    \/ UtterStart \/ UtterEnd \/ UtterCancelled

SpecCapture == Init /\ [][NextCapture]_vars

\* The artifact alone: camera, recorder, file inputs and reset, with spoken
\* guidance left on and the speech engine reporting nothing.
NextMedia ==
    \/ StartCamera \/ CameraGranted \/ CameraDenied \/ StopCamera
    \/ CapturePhoto \/ ToggleRecording \/ RecorderOnStop \/ RecorderOnLoadEnd
    \/ ImageUpload \/ VideoUpload \/ ImageOnLoad \/ VideoOnLoad
    \/ HandleReset

SpecMedia == Init /\ [][NextMedia]_vars

\* Snapshots alone: the camera, capturePhoto called in any state, and
\* descriptions of the photo so that there is a conversation to keep.
NextSnapshot ==
    \/ StartCamera \/ CameraGranted \/ CameraDenied \/ StopCamera
    \/ CapturePhotoCall \/ HandleDescribe \/ HandleReset
    \/ FetchRespond \/ ReadLines \/ ReadDone

SpecSnapshot == Init /\ [][NextSnapshot]_vars

\* Cancelling alone: descriptions of an uploaded image, one at a time, with
\* the stop button and the Escape key, which works at any time.
NextCancel ==
    \/ ImageUpload \/ ImageOnLoad \/ HandleDescribe
    \/ StopStreaming \/ Escape
    \/ FetchFail \/ FetchRespond \/ ReadLines \/ ReadDone

SpecCancel == Init /\ [][NextCancel]_vars

\* Replacing the artifact under a request: file reads that end while a
\* description is pending.
NextReplace ==
    \/ ImageUpload \/ VideoUpload \/ ImageOnLoad \/ VideoOnLoad
    \/ HandleDescribe \/ HandleReset
    \/ FetchRespond \/ ReadLines \/ ReadDone

SpecReplace == Init /\ [][NextReplace]_vars

\* The answer side alone: the media comes from an uploaded image, the
\* transport hands over whole lines and the speech engine reports nothing.
NextAnswer ==
    \/ ImageUpload \/ ImageOnLoad
    \/ SetQuestion \/ HandleSubmit \/ HandleDescribe
    \/ StopStreaming \/ Escape \/ HandleReset
    \/ FetchFail \/ FetchRespond \/ ReadLines \/ ReadDone \/ ReadFail

SpecAnswer == Init /\ [][NextAnswer]_vars

\* Questions alone, one at a time: the user uploads an image, types, submits
\* (by the form or by Ctrl+Enter), stops and resets.
NextSubmit ==
    \/ ImageUpload \/ ImageOnLoad
    \/ SetQuestion \/ HandleSubmit
    \/ StopStreaming \/ HandleReset
    \/ FetchFail \/ FetchRespond \/ ReadLines \/ ReadDone

SpecSubmit == Init /\ [][NextSubmit]_vars

\* The stream reader alone: descriptions of an uploaded image, one at a
\* time, over a transport that splits the body anywhere.
NextStream ==
    \/ ImageUpload \/ ImageOnLoad \/ HandleDescribe
    \/ FetchRespond \/ ReadValue \/ ReadDone

SpecStream == Init /\ [][NextStream]_vars

\* ======================================================================
\* Properties
\* ======================================================================
InFlightIds == {id \in ReqIds : InFlight(requests[id])}
LiveStreams == {id \in StreamIds : tracks[id] = "live"}
AnswersOf(id) ==
    {i \in DOMAIN conversation :
        conversation[i].type = "answer" /\ conversation[i].req = id}

\* no callback of the capture or answer side is pending
Quiet ==
    /\ cameraPending = <<>> /\ recStops = <<>> /\ recLoads = <<>>
    /\ imgLoads = <<>> /\ vidLoads = <<>>
    /\ InFlightIds = {}

\* The interval of startRecording never outlives the action that arms it:
\* the render that follows setIsRecording(true) runs the teardown cleanup,
\* which clears it.  TimerTick is therefore enabled in no reachable state and
\* is no disjunct of the next-state relations.
TimerNeverArmed == recordingTimerRef = NoRef /\ ~isRecording

\* C1: at most one streaming request is in flight at any time (a request
\* submitted while an earlier one is pending cancels the earlier one first).
C1_AtMostOneInFlight == Cardinality(InFlightIds) <= 1

\* C2: whenever the session is idle (camera not active, not recording), every
\* camera stream that was acquired has had its tracks stopped.
C2_NoLeakedStream == (~cameraActive /\ ~isRecording) => LiveStreams = {}

\* C3: with no user action after startRecording, the recorder is stopped by
\* the 10th timer tick: while its stop event or its file read is pending,
\* recordingTime is 10, the timer is cleared and isRecording is false.
C3_AutoStopAtCeiling ==
    (userOp = "startRecording" /\ (recStops # <<>> \/ recLoads # <<>>))
        => /\ recordingTime = RecordingCeiling
           /\ recordingTimerRef = NoRef
           /\ ~isRecording

\* C4: after handleReset, once every pending callback has run and the user
\* has done nothing else, the session is Idle: no image, no video, an empty
\* conversation, no request in flight, no camera stream held or live, and
\* not recording.
C4_ResetReachesIdle ==
    (userOp = "handleReset" /\ Quiet)
        => /\ image = None /\ video = None
           /\ conversation = <<>>
           /\ InFlightIds = {}
           /\ ~cameraActive /\ streamRef = NoRef /\ LiveStreams = {}
           /\ ~isRecording

\* C5: the outcomes of a request are disjoint: a cancelled request appends
\* no answer and sets no error, an answer is appended only by a request that
\* completed, and an error is set only by a request that failed.
C5_DisjointOutcomes ==
    \A id \in ReqIds :
        LET r == requests[id] IN
        /\ r.outcome = "cancelled" => (~r.answered /\ ~r.erred)
        /\ r.answered => r.outcome = "completed"
        /\ r.erred => r.outcome = "failed"

\* C6: once no request is pending (each has completed, been cancelled or
\* failed), the transient streamed text is empty.
C6_StreamingTextCleared == InFlightIds = {} => streamingText = <<>>

\* C7: a request that failed in transport (network failure or non-success
\* response), in question mode or in describe mode, has set the error slot
\* and has appended no answer.
C7_TransportFailureSurfaced ==
    \A id \in ReqIds :
        requests[id].outcome = "failed"
            => (requests[id].erred /\ ~requests[id].answered)

\* C8: a handleSubmit call without media, or with a question that is empty
\* or only whitespace, sends no request, appends nothing, leaves isLoading,
\* streamingText, the media and the stored controller as they were, and sets
\* the error message.
C8_RejectedSubmitOnlySetsError ==
    [][(HandleSubmit /\ ~submitAccepted)
          => /\ UNCHANGED <<conversation, isLoading, streamingText, image, video,
                            mediaType, abortControllerRef, requests>>
             /\ error' \in {"noMedia", "noQuestion"}]_vars

\* handleSubmit has just rejected a whitespace-only question (an accepted
\* one would have emptied the field) while media was present and an earlier
\* question was in the conversation
C8_Witness ==
    /\ userOp = "handleSubmit" /\ hasMedia /\ question = <<" ">>
    /\ error = "noQuestion" /\ conversation # <<>>

\* C9: for a body of data frames ended by [DONE], however the transport
\* splits it, the one answer entry of the request holds the fragments
\* concatenated in order.
C9_AnswerIsConcatenation ==
    \A id \in ReqIds :
        (requests[id].outcome = "completed" /\ requests[id].script = "ab")
            => /\ Cardinality(AnswersOf(id)) = 1
               /\ \A i \in AnswersOf(id) :
                    conversation[i].text = Payload(Frames("ab"))

\* C10: no payload that follows the [DONE] line, in the same chunk or in a
\* later one, reaches the streamed text or the answer.
C10_NothingAfterDone ==
    \A id \in ReqIds :
        requests[id].script = "aDb"
            => /\ requests[id].fullText \in {<<>>, Payload(Frames("aDb"))}
               /\ \A i \in AnswersOf(id) :
                    conversation[i].text = Payload(Frames("aDb"))

\* an artifact has just been set: by capturePhoto, by the recorder's file
\* read, or by the file read of an upload
ArtifactSet == CapturePhoto \/ RecorderOnLoadEnd \/ ImageOnLoad \/ VideoOnLoad

\* C11: immediately after an artifact is set (by capturePhoto, by the end of
\* a recording, by an image upload or by a video upload), the conversation
\* is empty and the error slot is empty, whatever they held before.
C11_ArtifactStartsFresh ==
    [][(mounted /\ ArtifactSet) => (conversation' = <<>> /\ error' = None)]_vars

\* C12: at most one of image and video is set, and mediaType names the kind
\* of the one that is set.
C12_OneArtifactOfItsKind ==
    /\ ~(image # None /\ video # None)
    /\ image # None => mediaType = "image"
    /\ video # None => mediaType = "video"

\* a video whose file read was pending across a reset has replaced nothing
\* but is the one artifact: uploads, an artifact and a reset interleaved
C12_Witness ==
    /\ userOp = "handleReset" /\ video = "video" /\ image = None
    /\ mediaType = "video" /\ vidLoads = <<>>

\* C13: when the camera cannot be opened, cameraActive, the stream held in
\* streamRef, every track, isRecording and the artifact are as they were
\* (no partial activation), and the error message is set.
C13_FailedOpenActivatesNothing ==
    [][(mounted /\ CameraDenied)
          => /\ UNCHANGED <<cameraActive, streamRef, tracks, isRecording,
                            recordingTime, image, video, mediaType>>
             /\ error' = "camera"]_vars

\* the open has failed and the session is Idle with its message
C13_Witness ==
    /\ error = "camera" /\ cameraPending = <<>>
    /\ ~cameraActive /\ streamRef = NoRef /\ LiveStreams = {}
    /\ ~isRecording /\ ~hasMedia

C15_SpeakingWhilePlaying == (mounted /\ utter = "playing") => isSpeaking

\* C16: cancelling is idempotent and harmless after completion: in every
\* state stopStreaming twice leaves what stopStreaming once leaves, and a
\* stopStreaming called when no request is pending (the Escape key) keeps
\* the conversation with its answers, the error slot and the loading flag,
\* and leaves the requests and the controller slot as they were, so that a
\* request started later finds what it would have found.
C16_CancelIdempotent ==
    /\ [](stopStreaming(stopStreaming(Cur)) = stopStreaming(Cur))
    /\ [][(Escape /\ InFlightIds = {})
            => UNCHANGED <<conversation, error, isLoading, streamingText,
                           requests, abortControllerRef>>]_vars

\* Escape has been pressed after a request completed; its answer is there
C16_Witness ==
    /\ userOp = "escape" /\ InFlightIds = {} /\ error = None /\ ~isLoading
    /\ \E id \in ReqIds :
         requests[id].outcome = "completed" /\ AnswersOf(id) # {}

SubStates ==
    {Cur} \cup (IF cameraActive /\ streamRef # NoRef
                THEN {startRecording(Cur, ttsEnabled)} ELSE {})

\* what stopCamera is to leave of the camera
CameraOf(s) ==
    <<s.tracks, s.streamRef, s.recordingTimerRef, s.cameraActive, s.isRecording,
      s.recordingTime>>

\* C18: stopCamera called in any sub-state (idle, camera active, recording)
\* ends with the tracks of the held stream stopped, streamRef empty, the
\* recording timer cleared, cameraActive false, isRecording false and
\* recordingTime 0, and a second stopCamera right after it changes nothing.
C18_CloseTotalIdempotent ==
    \A s \in SubStates, isRec \in BOOLEAN :
        LET t == stopCamera(s, isRec) IN
        /\ s.streamRef # NoRef => t.tracks[s.streamRef] = "ended"
        /\ t.streamRef = NoRef /\ t.recordingTimerRef = NoRef
        /\ ~t.cameraActive /\ ~t.isRecording /\ t.recordingTime = 0
        /\ stopCamera(t, isRec) = t
        /\ \A later \in BOOLEAN : CameraOf(stopCamera(t, later)) = CameraOf(t)

\* the cancel button has closed an open camera
C18_Witness ==
    /\ userOp = "stopCamera" /\ ~cameraActive /\ streamRef = NoRef
    /\ ~isRecording /\ recordingTime = 0 /\ recordingTimerRef = NoRef
    /\ LiveStreams = {} /\ \E id \in StreamIds : tracks[id] = "ended"

\* the frames of a script up to its sentinel, the sentinel included
RECURSIVE UpToDone(_)
UpToDone(frames) ==
    IF frames = <<>> THEN <<>>
    ELSE IF Head(frames) = DoneSentinel THEN <<DoneSentinel>>
    ELSE <<Head(frames)>> \o UpToDone(Tail(frames))

\* the client has been handed the whole [DONE] line of the response
SentinelDelivered(r) ==
    /\ r.script \in Scripts
    /\ Len(Encode(Frames(r.script))) - Len(r.rest)
          >= Len(Encode(UpToDone(Frames(r.script))))

\* C19: once the server has sent [DONE], or the transport has failed, or
\* cancel has been called, the request is no longer pending and, when no
\* other request is, isLoading is false; the server need not close the
\* connection for that.
C19_NeverStuckPending ==
    \A id \in ReqIds :
        LET r == requests[id] IN
        (\/ (r.phase = "read" /\ SentinelDelivered(r))
         \/ r.outcome \in {"failed", "cancelled"})
            => /\ ~InFlight(r)
               /\ InFlightIds = {} => ~isLoading

\* C20: handleReset invoked while an utterance is playing cancels that
\* utterance, with spoken guidance on or off: after the reset nothing that
\* was playing is still playing.
C20_ResetStopsSpeech ==
    [][(HandleReset /\ utter = "playing") => utter' # "playing"]_vars

QuestionsOf(id) ==
    {i \in DOMAIN conversation :
        conversation[i].type = "question" /\ conversation[i].req = id}

\* C21: an accepted submission has its question entry in the conversation
\* when its request is issued, the answer entry of a request comes after
\* that request's question entry, and a step that changes the conversation
\* either appends one entry to it, the entries before it untouched, or
\* empties it (new artifact, reset).
C21_ChronologicalEntries ==
    /\ [](\A id \in ReqIds :
            \A i \in AnswersOf(id), j \in QuestionsOf(id) : j < i)
    /\ [][(HandleSubmit /\ submitAccepted)
            => \E id \in ReqIds :
                 /\ requests[id].phase = "idle" /\ requests'[id].phase = "fetch"
                 /\ conversation' =
                      Append(conversation,
                             [type |-> "question", text |-> question, req |-> id])]_vars
    /\ [][\/ conversation' = conversation
          \/ conversation' = <<>>
          \/ /\ Len(conversation') = Len(conversation) + 1
             /\ SubSeq(conversation', 1, Len(conversation)) = conversation]_vars

\* two questions asked and answered one after the other
C21_Witness ==
    /\ Len(conversation) = 4
    /\ conversation[1].type = "question" /\ conversation[2].type = "answer"
    /\ conversation[3].type = "question" /\ conversation[4].type = "answer"
    /\ conversation[1].req = conversation[2].req
    /\ conversation[3].req = conversation[4].req
    /\ conversation[1].req # conversation[3].req

\* C22: the elapsed recording counter is between 0 and the ceiling in every
\* reachable state, and a tick of the timer keeps it there whatever value
\* in that range it finds, so that no number of ticks takes it past 10.
C22_RecordingTimeBounded ==
    /\ recordingTime \in 0..RecordingCeiling
    /\ \A n \in 0..RecordingCeiling :
         timerTick([Cur EXCEPT !.recordingTime = n]).recordingTime
             \in 0..RecordingCeiling

\* a recording has been started and the camera closed under it
C22_Witness ==
    /\ userOp = "startRecording" /\ recorder.state = "inactive"
    /\ recordingTimerRef = NoRef /\ recordingTime = 0 /\ ~cameraActive

\* C23: starting a recording tears nothing down: the step that starts it
\* leaves the camera stream held and live, the camera active, the timer
\* armed, isRecording true, the requests and the stored controller as they
\* were, and the announcement of startRecording queued for speech.
C23_StartRecordingKeepsSession ==
    [][(ToggleRecording /\ ~isRecording)
          => /\ UNCHANGED <<streamRef, tracks, requests, abortControllerRef,
                            isLoading>>
             /\ cameraActive' /\ isRecording'
             /\ recordingTimerRef' # NoRef
             /\ recorder'.state = "recording"
             /\ ttsEnabled => utter' = "queued"]_vars

\* C24: between handlers, isLoading is true exactly when a request is in
\* flight, abortControllerRef holds the controller of the request that is in
\* flight, and it is empty when none is.
C24_LoadingHandleAgree ==
    /\ isLoading <=> InFlightIds # {}
    /\ \A id \in InFlightIds : abortControllerRef = id
    /\ InFlightIds = {} => abortControllerRef = NoRef

\* C25: an answer is appended only to the conversation of the artifact it
\* was asked about: every answer entry in the conversation is preceded by
\* the question entry of its own request.
C25_AnswerFollowsOwnQuestion ==
    \A i \in DOMAIN conversation :
        conversation[i].type = "answer"
            => \E j \in 1..(i - 1) :
                 /\ conversation[j].type = "question"
                 /\ conversation[j].req = conversation[i].req

====
